---- MODULE Spec2Model ----
(***************************************************************************)
(* Model of src/data_intake/player_data.py: the two fetch / transform /    *)
(* write pipelines get_rookies(year) and get_team_offensive_stats(year).   *)
(*                                                                         *)
(* Python values are written as tagged strings ("int:0", "str:QB",         *)
(* "bool:False", "None", "list:[]") so that values of different Python     *)
(* types stay different; a key that a mapping does not hold is Absent.     *)
(***************************************************************************)
EXTENDS Integers, Sequences, FiniteSets, TLC

\* ------------------------------------------------------------------ bounds
MaxEntries == 2   \* entries of a response mapping (SpecTransform)
MaxRuns == 3      \* invocations made one after the other (Spec)
NConc == 2        \* invocations running at the same time (SpecConcurrent)

\* ----------------------------------------------------------- Python values
None == "None"
Absent == "<absent>"

\* dict.get(key): the value, or None when the key is missing.
Get(d, k) == IF d[k] = Absent THEN None ELSE d[k]

\* Python's v == 0 (an int, a bool and a float compare by value).
PyEqZero(v) == v \in {"int:0", "bool:False", "float:0.0"}

\* Python's hash(v) succeeds (a list or a dict is unhashable).
Hashable(v) == v \notin {"list:[]"}

\* str(v) as pandas writes a cell: a missing value is an empty cell.
CsvCell(v) ==
    CASE v = None -> ""
      [] v = "int:0" -> "0"
      [] v = "int:1" -> "1"
      [] v = "int:2" -> "2"
      [] v = "int:3" -> "3"
      [] v = "int:4" -> "4"
      [] v = "int:5" -> "5"
      [] v = "int:6" -> "6"
      [] v = "int:7" -> "7"
      [] v = "int:8" -> "8"
      [] v = "int:9" -> "9"
      [] v = "int:40" -> "40"
      [] v = "float:0.61" -> "0.61"
      [] v = "bool:False" -> "False"
      [] v = "list:[]" -> "[]"
      [] v = "str:QB" -> "QB"
      [] v = "str:TE" -> "TE"
      [] v = "str:K" -> "K"
      [] v = "str:KC" -> "KC"
      [] v = "str:John Smith" -> "John Smith"
      [] v = "str:Alabama" -> "Alabama"
      [] OTHER -> v

\* ------------------------------------------------------ module constants
DATA_DIR == "data/raw"

\* os.path.join(a, b)
PathJoin(a, b) == a \o "/" \o b

\* ----------------------------------------------------------- get_rookies
valid_positions == {"str:QB", "str:RB", "str:WR", "str:TE"}

RookieColumns ==
    <<"player_id", "full_name", "position", "team", "college", "years_exp">>

\* The dict literal of the comprehension.
RookieRecord(pid, player) ==
    [player_id |-> pid,
     full_name |-> Get(player, "full_name"),
     position  |-> Get(player, "position"),
     team      |-> Get(player, "team"),
     college   |-> Get(player, "college"),
     years_exp |-> Get(player, "years_exp")]

\* Mutant: the two tests joined by `or`.
RookieCondOr(player) ==
    PyEqZero(Get(player, "years_exp")) \/ Get(player, "position") \in valid_positions

\* The comprehension's condition; `and` evaluates its right side only when
\* the left side is true.
RookieCond(player) ==
    PyEqZero(Get(player, "years_exp")) /\ Get(player, "position") \in valid_positions

\* What evaluating the condition on one entry raises ("" when nothing):
\* a value that is no mapping has no .get, and `in` on a set hashes its
\* left operand.
RookieCondRaises(e) ==
    IF ~e.isdict THEN "AttributeError"
    ELSE IF PyEqZero(Get(e.d, "years_exp")) /\ ~Hashable(Get(e.d, "position"))
         THEN "TypeError"
         ELSE ""

\* Mutant: each record is put in front of those built so far.
RECURSIVE RookieListReversed(_)
RookieListReversed(data) ==
    IF data = <<>> THEN <<>>
    ELSE LET e == Head(data)
             rest == RookieListReversed(Tail(data))
         IN IF RookieCond(e.d) THEN rest \o <<RookieRecord(e.key, e.d)>> ELSE rest

RECURSIVE RookieList(_)
RookieList(data) ==
    IF data = <<>> THEN <<>>
    ELSE LET e == Head(data)
             rest == RookieList(Tail(data))
         IN IF RookieCond(e.d) THEN <<RookieRecord(e.key, e.d)>> \o rest ELSE rest

\* ---------------------------------------------- get_team_offensive_stats
TeamColumns ==
    <<"team", "year", "offense_rank", "pass_yards_rank", "pass_td_rank",
      "rush_yards_rank", "rush_td_rank", "rec_yards_rank", "rec_td_rank",
      "team_td", "redzone_rank", "redzone_pct">>

\* Mutant: the yardage ranks and the touchdown total are read under the
\* output's names, which the API does not use.
TeamRecordOutputKeys(team, year, stats) ==
    [team            |-> team,
     year            |-> year,
     offense_rank    |-> Get(stats, "offense_rank"),
     pass_yards_rank |-> Get(stats, "pass_yards_rank"),
     pass_td_rank    |-> Get(stats, "pass_td_rank"),
     rush_yards_rank |-> Get(stats, "rush_yds_rank"),
     rush_td_rank    |-> Get(stats, "rush_td_rank"),
     rec_yards_rank  |-> Get(stats, "rec_yds_rank"),
     rec_td_rank     |-> Get(stats, "rec_td_rank"),
     team_td         |-> Get(stats, "td"),
     redzone_rank    |-> Get(stats, "redzone_rank"),
     redzone_pct     |-> Get(stats, "redzone_pct")]

TeamRecord(team, year, stats) ==
    [team            |-> team,
     year            |-> year,
     offense_rank    |-> Get(stats, "offense_rank"),
     pass_yards_rank |-> Get(stats, "pass_yds_rank"),
     pass_td_rank    |-> Get(stats, "pass_td_rank"),
     rush_yards_rank |-> Get(stats, "rush_yds_rank"),
     rush_td_rank    |-> Get(stats, "rush_td_rank"),
     rec_yards_rank  |-> Get(stats, "rec_yds_rank"),
     rec_td_rank     |-> Get(stats, "rec_td_rank"),
     team_td         |-> Get(stats, "td"),
     redzone_rank    |-> Get(stats, "redzone_rank"),
     redzone_pct     |-> Get(stats, "redzone_pct")]

\* Mutant: no isinstance test.
TeamCondAny(e) == TRUE

\* isinstance(stats, dict)
TeamCond(e) == e.isdict

RECURSIVE TeamList(_, _)
TeamList(data, year) ==
    IF data = <<>> THEN <<>>
    ELSE LET e == Head(data)
             rest == TeamList(Tail(data), year)
         IN IF TeamCond(e) THEN <<TeamRecord(e.key, year, e.d)>> \o rest ELSE rest

\* ------------------------------------------------- DataFrame and to_csv
\* pd.DataFrame(records): the columns are the keys of the records, in the
\* order of the dict literal `keys`; a list with no record has no columns.
DataFrame(records, keys) ==
    [columns |-> IF records = <<>> THEN <<>> ELSE keys, rows |-> records]

\* The text of one cell; the caller's year is a Python int.
CellText(row, c) == IF c = "year" THEN ToString(row[c]) ELSE CsvCell(row[c])

\* df.to_csv(path, index=False): the header line, then one line per row,
\* each line the sequence of its cells, with no index column.
ToCsv(df) ==
    <<df.columns>> \o
    [k \in 1..Len(df.rows) |->
        [j \in 1..Len(df.columns) |-> CellText(df.rows[k], df.columns[j])]]

\* len(df)
DfLen(df) == Len(df.rows)

\* ------------------------------------------------------------ file system
NoFile == [exists |-> FALSE, lines |-> <<>>]
OldFile == [exists |-> TRUE, lines |-> << <<"old_a">>, <<"old_b">>, <<"old_c">>, <<"old_d">> >>]

\* Mutant: the file is opened without being truncated.
OpenKeep(f) == [exists |-> TRUE, lines |-> f.lines]

\* open(path, "w"): creates the file or truncates it to length zero.
OpenW(f) == [exists |-> TRUE, lines |-> <<>>]

\* Mutant: the buffered text never reaches the file.
WriteLost(f, lines) == f

\* write() of `lines` through a handle whose offset is 0: the written
\* lines replace the file's first lines, anything beyond them stays.
WriteAt0(f, lines) ==
    [exists |-> TRUE,
     lines |-> lines \o SubSeq(f.lines, Len(lines) + 1, Len(f.lines))]

\* ------------------------------------------------------------ the two paths
\* output_path of get_rookies: a plain string, not an f-string, so the
\* braces stay in the name.
RookiesOutputPath(year) == PathJoin(DATA_DIR, "rookies_{year}.csv")

TeamOutputPath(year) ==
    PathJoin(DATA_DIR, "sleeper_team_stats_" \o ToString(year) \o ".csv")

OutputPath(f, year) ==
    IF f = "get_rookies" THEN RookiesOutputPath(year) ELSE TeamOutputPath(year)

RookiesUrl == "https://api.sleeper.app/v1/players/nfl"
TeamUrl(year) == "https://api.sleeper.app/v1/stats/nfl/regular/" \o ToString(year)
Url(f, year) == IF f = "get_rookies" THEN RookiesUrl ELSE TeamUrl(year)

RookiesMessage(df, year) ==
    "Saved " \o ToString(DfLen(df)) \o " rookies (QB, RB, WR, TE) to rookies_"
        \o ToString(year) \o ".csv"
TeamMessage(year) == "Saved team offensive stats for " \o ToString(year)
Message(f, df, year) ==
    IF f = "get_rookies" THEN RookiesMessage(df, year) ELSE TeamMessage(year)

\* The list comprehension of either pipeline.
Records(f, data, year) ==
    IF f = "get_rookies" THEN RookieList(data) ELSE TeamList(data, year)

Columns(f) == IF f = "get_rookies" THEN RookieColumns ELSE TeamColumns

\* Mutant: the comprehension skips what it cannot evaluate.
TransformNeverRaises(f, data) == ""

\* The first exception the comprehension raises, "" when it completes.
RECURSIVE RookieRaises(_)
RookieRaises(data) ==
    IF data = <<>> THEN ""
    ELSE IF RookieCondRaises(Head(data)) # "" THEN RookieCondRaises(Head(data))
         ELSE RookieRaises(Tail(data))

TransformRaises(f, data) == IF f = "get_rookies" THEN RookieRaises(data) ELSE ""

\* Mutant: only a server error raises.
IsHttpError5xx(status) == status >= 500 /\ status < 600

\* response.raise_for_status(): 4xx and 5xx raise HTTPError.
IsHttpError(status) == status >= 400 /\ status < 600

\* ----------------------------------------------------------------- inputs
Years == {2023, 2024}
Pipelines == {"get_rookies", "get_team_offensive_stats"}

PlayerIds == <<"1001", "1002", "1003", "1004">>
TeamKeys == <<"KC", "BUF", "DAL", "SF">>

Player(name, pos, team, college, ye) ==
    [full_name |-> name, position |-> pos, team |-> team, college |-> college,
     years_exp |-> ye]

NoPlayer == Player(Absent, Absent, Absent, Absent, Absent)

Stats(off, pyds, ptd, ryds, rtd, cyds, ctd, td, rzr, rzp, other) ==
    [offense_rank |-> off, pass_yds_rank |-> pyds, pass_td_rank |-> ptd,
     rush_yds_rank |-> ryds, rush_td_rank |-> rtd, rec_yds_rank |-> cyds,
     rec_td_rank |-> ctd, td |-> td, redzone_rank |-> rzr, redzone_pct |-> rzp,
     pass_yards_rank |-> other]

NoStats ==
    Stats(Absent, Absent, Absent, Absent, Absent, Absent, Absent, Absent, Absent,
          Absent, Absent)

\* A value of the response mapping: a mapping d, or a value v that is none.
DictValue(d) == [isdict |-> TRUE, v |-> "dict", d |-> d]
PlainValue(v, none) == [isdict |-> FALSE, v |-> v, d |-> none]

\* Player entries: every mix of a years_exp and a position (each missing,
\* null, matching or not), an unassigned rookie without name and team, and
\* two values that are no mapping.
PlayerValues ==
    {DictValue(Player("str:John Smith", pos, "str:KC", "str:Alabama", ye)) :
        pos \in {Absent, None, "str:QB", "str:K", "list:[]"},
        ye \in {Absent, None, "int:0", "int:1", "bool:False"}}
    \cup {DictValue(Player(Absent, "str:TE", Absent, None, "int:0"))}
    \cup {PlainValue(None, NoPlayer), PlainValue("str:bye", NoPlayer)}

\* Team entries: no stat, one stat, every stat, some stats, a key the code
\* does not read, a null stat, and four values that are no mapping.
TeamValues ==
    {DictValue(NoStats),
     DictValue([NoStats EXCEPT !.offense_rank = "int:2"]),
     DictValue(Stats("int:1", "int:2", "int:3", "int:4", "int:5", "int:6", "int:7",
                     "int:40", "int:8", "float:0.61", Absent)),
     DictValue([NoStats EXCEPT !.pass_yds_rank = "int:3", !.td = "int:40",
                               !.redzone_pct = "float:0.61"]),
     DictValue([NoStats EXCEPT !.pass_yards_rank = "int:5"]),
     DictValue([NoStats EXCEPT !.offense_rank = None, !.rush_yds_rank = "int:9"]),
     PlainValue("str:bye", NoStats), PlainValue("int:7", NoStats),
     PlainValue(None, NoStats), PlainValue("list:[]", NoStats)}

Values(f) == IF f = "get_rookies" THEN PlayerValues ELSE TeamValues
Keys(f) == IF f = "get_rookies" THEN PlayerIds ELSE TeamKeys

\* The source mapping as its items in iteration order: the keys are distinct,
\* taken in the order of `keys` or in the opposite order.
Entry(k, val) == [key |-> k, isdict |-> val.isdict, v |-> val.v, d |-> val.d]

\* m values under the first m keys, taken in the order of Keys(f) or, when
\* rev, in the opposite order.
Mapping(f, m, vals, rev) ==
    [j \in 1..m |-> Entry(Keys(f)[IF rev THEN m + 1 - j ELSE j], vals[j])]

\* A few responses of different lengths, for the runs that follow or overlap
\* one another.
EligibleQB == DictValue(Player("str:John Smith", "str:QB", "str:KC", "str:Alabama", "int:0"))
VeteranQB == DictValue(Player("str:John Smith", "str:QB", "str:KC", "str:Alabama", "int:1"))
UnassignedTE == DictValue(Player(Absent, "str:TE", Absent, None, "int:0"))

SampleMappings(f) ==
    IF f = "get_rookies"
    THEN {<<>>,
          <<Entry("1001", EligibleQB)>>,
          <<Entry("1001", EligibleQB), Entry("1002", VeteranQB),
            Entry("1003", UnassignedTE)>>,
          <<Entry("1001", EligibleQB), Entry("1002", PlainValue("str:bye", NoPlayer))>>}
    ELSE {<<>>,
          <<Entry("KC", DictValue([NoStats EXCEPT !.offense_rank = "int:2"])),
            Entry("BUF", PlainValue("str:bye", NoStats))>>,
          <<Entry("KC", DictValue([NoStats EXCEPT !.offense_rank = "int:2"])),
            Entry("BUF", DictValue([NoStats EXCEPT !.td = "int:40"]))>>}

SampleResponses(f) ==
    {[status |-> 200, body |-> b] : b \in SampleMappings(f)}
    \cup {[status |-> 500, body |-> <<>>]}

\* ------------------------------------------------------------------ state
VARIABLES
    pc,           \* where each invocation stands
    fn,           \* the function invoked
    year,         \* its argument
    gets,         \* the URLs each invocation has requested, in order
    response,     \* what requests.get returned
    data,         \* response.json()
    df,           \* the DataFrame built from the records
    output_path,  \* the path handed to to_csv
    exc,          \* the exception that ended the invocation, "" when none
    files,        \* the files under DATA_DIR
    fs_ops,       \* the file operations performed, in order
    stdout        \* the lines printed

vars ==
    <<pc, fn, year, gets, response, data, df, output_path, exc, files, fs_ops, stdout>>

Calls == DOMAIN pc

Paths == {OutputPath(f, y) : f \in Pipelines, y \in Years}

NoResponse == [status |-> 0, body |-> <<>>]
NoDf == [columns |-> <<>>, rows |-> <<>>]

\* n invocations not yet made; the output files are missing, or hold what
\* some earlier process wrote.
Init(n) ==
    /\ pc = [i \in 1..n |-> "idle"]
    /\ fn = [i \in 1..n |-> ""]
    /\ year = [i \in 1..n |-> 0]
    /\ gets = [i \in 1..n |-> <<>>]
    /\ response = [i \in 1..n |-> NoResponse]
    /\ data = [i \in 1..n |-> <<>>]
    /\ df = [i \in 1..n |-> NoDf]
    /\ output_path = [i \in 1..n |-> ""]
    /\ exc = [i \in 1..n |-> ""]
    /\ files \in {[p \in Paths |-> NoFile], [p \in Paths |-> OldFile]}
    /\ fs_ops = <<>>
    /\ stdout = <<>>

\* url = ...; response = requests.get(url), for the call f(y) answered by r.
HttpGet(i, f, y, r) ==
    /\ pc[i] = "idle"
    /\ fn' = [fn EXCEPT ![i] = f]
    /\ year' = [year EXCEPT ![i] = y]
    /\ gets' = [gets EXCEPT ![i] = Append(@, Url(f, y))]
    /\ response' = [response EXCEPT ![i] = r]
    /\ pc' = [pc EXCEPT ![i] = "got"]
    /\ UNCHANGED <<data, df, output_path, exc, files, fs_ops, stdout>>

\* response.raise_for_status(); data = response.json()
RaiseForStatus(i) ==
    /\ pc[i] = "got"
    /\ IF IsHttpError(response[i].status)
       THEN /\ exc' = [exc EXCEPT ![i] = "HTTPError"]
            /\ pc' = [pc EXCEPT ![i] = "raised"]
            /\ UNCHANGED data
       ELSE /\ data' = [data EXCEPT ![i] = response[i].body]
            /\ pc' = [pc EXCEPT ![i] = "json"]
            /\ UNCHANGED exc
    /\ UNCHANGED <<fn, year, gets, response, df, output_path, files, fs_ops, stdout>>

\* The list comprehension, pd.DataFrame(...) and the output path.
Transform(i) ==
    /\ pc[i] = "json"
    /\ IF TransformRaises(fn[i], data[i]) # ""
       THEN /\ exc' = [exc EXCEPT ![i] = TransformRaises(fn[i], data[i])]
            /\ pc' = [pc EXCEPT ![i] = "raised"]
            /\ UNCHANGED <<df, output_path>>
       ELSE /\ df' = [df EXCEPT ![i] =
                        DataFrame(Records(fn[i], data[i], year[i]), Columns(fn[i]))]
            /\ output_path' = [output_path EXCEPT ![i] = OutputPath(fn[i], year[i])]
            /\ pc' = [pc EXCEPT ![i] = "frame"]
            /\ UNCHANGED exc
    /\ UNCHANGED <<fn, year, gets, response, data, files, fs_ops, stdout>>

\* df.to_csv(path, index=False), first half: the file is opened for writing.
ToCsvOpen(i) ==
    /\ pc[i] = "frame"
    /\ files' = [files EXCEPT ![output_path[i]] = OpenW(@)]
    /\ fs_ops' = Append(fs_ops, [call |-> i, op |-> "open", path |-> output_path[i]])
    /\ pc' = [pc EXCEPT ![i] = "open"]
    /\ UNCHANGED <<fn, year, gets, response, data, df, output_path, exc, stdout>>

\* df.to_csv(path, index=False), second half: the buffered text is written
\* from the handle's own offset 0 and the file is closed.
ToCsvWrite(i) ==
    /\ pc[i] = "open"
    /\ files' = [files EXCEPT ![output_path[i]] = WriteAt0(@, ToCsv(df[i]))]
    /\ fs_ops' = Append(fs_ops, [call |-> i, op |-> "write", path |-> output_path[i]])
    /\ pc' = [pc EXCEPT ![i] = "written"]
    /\ UNCHANGED <<fn, year, gets, response, data, df, output_path, exc, stdout>>

\* print(...); return df
PrintReturn(i) ==
    /\ pc[i] = "written"
    /\ stdout' = Append(stdout, Message(fn[i], df[i], year[i]))
    /\ pc' = [pc EXCEPT ![i] = "done"]
    /\ UNCHANGED <<fn, year, gets, response, data, df, output_path, exc, files, fs_ops>>

Finished(i) == pc[i] \in {"done", "raised"}

\* ---------------------------------------------------------- specifications
\* Invocations made one after the other: the next one starts when the one
\* before it has returned or raised.
SeqHttpGet(i) ==
    /\ pc[i] = "idle"
    /\ \A j \in Calls : j < i => Finished(j)
    /\ \E f \in Pipelines, y \in Years :
         \E r \in SampleResponses(f) : HttpGet(i, f, y, r)

Next ==
    \/ \E i \in Calls : SeqHttpGet(i)
    \/ \E i \in Calls : RaiseForStatus(i)
    \/ \E i \in Calls : Transform(i)
    \/ \E i \in Calls : ToCsvOpen(i)
    \/ \E i \in Calls : ToCsvWrite(i)
    \/ \E i \in Calls : PrintReturn(i)

Spec == Init(MaxRuns) /\ [][Next]_vars

\* One invocation on every response mapping of up to MaxEntries entries.
AnyHttpGet(i) ==
    /\ pc[i] = "idle"
    /\ \E f \in Pipelines, y \in Years, m \in 0..MaxEntries, rev \in BOOLEAN :
         \E vals \in [1..m -> Values(f)] :
           \E st \in (IF m = 0 /\ ~rev THEN {200, 404, 500} ELSE {200}) :
             HttpGet(i, f, y, [status |-> st, body |-> Mapping(f, m, vals, rev)])

NextTransform ==
    \/ \E i \in Calls : AnyHttpGet(i)
    \/ \E i \in Calls : RaiseForStatus(i)
    \/ \E i \in Calls : Transform(i)
    \/ \E i \in Calls : ToCsvOpen(i)
    \/ \E i \in Calls : ToCsvWrite(i)
    \/ \E i \in Calls : PrintReturn(i)

SpecTransform == Init(1) /\ [][NextTransform]_vars

\* Invocations of one pipeline for one year, started at any time by
\* threads or processes that share DATA_DIR and take no lock.
ConcHttpGet(i) ==
    /\ pc[i] = "idle"
    /\ \E f \in Pipelines, y \in Years :
        /\ \A j \in Calls : pc[j] # "idle" => (fn[j] = f /\ year[j] = y)
        /\ \E r \in SampleResponses(f) : HttpGet(i, f, y, r)

NextConcurrent ==
    \/ \E i \in Calls : ConcHttpGet(i)
    \/ \E i \in Calls : RaiseForStatus(i)
    \/ \E i \in Calls : Transform(i)
    \/ \E i \in Calls : ToCsvOpen(i)
    \/ \E i \in Calls : ToCsvWrite(i)
    \/ \E i \in Calls : PrintReturn(i)

SpecConcurrent == Init(NConc) /\ [][NextConcurrent]_vars

\* ===================================================================
\* Properties
\* ===================================================================
\* The invocation has built its collection (the transform completed).
Built(i) == pc[i] \in {"frame", "open", "written", "done"}

\* The entry's value is a mapping that holds `k`, with a value other than null.
Has(e, k) == e.isdict /\ e.d[k] # Absent /\ e.d[k] # None

\* An eligible rookie, as the specification words it.
Eligible(e) ==
    /\ Has(e, "years_exp") /\ e.d.years_exp \in {"int:0", "bool:False"}
    /\ Has(e, "position") /\ e.d.position \in {"str:QB", "str:RB", "str:WR", "str:TE"}

\* The positions of `seq` whose entry satisfies P, and the k-th of them.
Indices(seq, P(_)) == {j \in 1..Len(seq) : P(seq[j])}
Kth(S, k) == CHOOSE j \in S : Cardinality({x \in S : x <= j}) = k

\* ---------------------------------------------------------------- C1
\* C1: every record get_rookies emits has years_exp == 0 (Python equality)
\* and a position among QB, RB, WR, TE, whatever mix of eligible and
\* ineligible entries (years_exp or position missing or null) came in.
C1_RookieRecordsEligible ==
    \A i \in Calls :
        fn[i] = "get_rookies" =>
            \A k \in 1..Len(df[i].rows) :
                /\ df[i].rows[k].years_exp \in {"int:0", "bool:False"}
                /\ df[i].rows[k].position \in {"str:QB", "str:RB", "str:WR", "str:TE"}

\* A mixed response went through: one entry emitted, one with a null or
\* missing field dropped.
C1_Witness ==
    \E i \in Calls :
        /\ fn[i] = "get_rookies" /\ pc[i] = "done"
        /\ Len(data[i]) = 2 /\ Len(df[i].rows) = 1
        /\ \E j \in 1..2 : data[i][j].d.years_exp = None \/ data[i][j].d.position = Absent

IsMapping(e) == e.isdict

C5_OneRecordPerMappingKey ==
    \A i \in Calls :
        fn[i] = "get_team_offensive_stats" =>
            /\ (pc[i] = "raised" => response[i].status >= 400)
            /\ Built(i) =>
                 LET S == Indices(data[i], IsMapping)
                 IN /\ Len(df[i].rows) = Cardinality(S)
                    /\ \A k \in 1..Len(df[i].rows) :
                          df[i].rows[k].team = data[i][Kth(S, k)].key

\* A mapping and a value that is none: one record, for the mapping's key.
C5_Witness ==
    \E i \in Calls :
        /\ fn[i] = "get_team_offensive_stats" /\ pc[i] = "done"
        /\ Len(data[i]) = 2 /\ data[i][1].isdict /\ ~data[i][2].isdict
        /\ data[i][2].v = "str:bye"
        /\ Len(df[i].rows) = 1 /\ df[i].rows[1].team = "KC"

\* ---------------------------------------------------------------- C8
\* C8: every team record has team = its source key, year = the caller's
\* argument, and each of the ten stat fields equal to the source mapping's
\* value for it (under the API's key for that field) when present and null
\* when absent.
StatColumns ==
    {"offense_rank", "pass_yards_rank", "pass_td_rank", "rush_yards_rank",
     "rush_td_rank", "rec_yards_rank", "rec_td_rank", "team_td", "redzone_rank",
     "redzone_pct"}

\* The API's key for an output field.
SourceKey(c) ==
    CASE c = "pass_yards_rank" -> "pass_yds_rank"
      [] c = "rush_yards_rank" -> "rush_yds_rank"
      [] c = "rec_yards_rank" -> "rec_yds_rank"
      [] c = "team_td" -> "td"
      [] OTHER -> c

C8_TeamRecordFields ==
    \A i \in Calls :
        (fn[i] = "get_team_offensive_stats" /\ Built(i)) =>
            LET S == Indices(data[i], IsMapping)
            IN \A k \in 1..Len(df[i].rows) :
                 LET e == data[i][Kth(S, k)]
                     r == df[i].rows[k]
                 IN /\ r.team = e.key
                    /\ r.year = year[i]
                    /\ \A c \in StatColumns :
                         r[c] = IF e.d[SourceKey(c)] = Absent THEN None
                                ELSE e.d[SourceKey(c)]

\* The response {"KC": {"offense_rank": 2}, "BUF": "bye"}: one record, with
\* offense_rank 2 and every other stat null.
C8_Witness ==
    \E i \in Calls :
        /\ fn[i] = "get_team_offensive_stats" /\ pc[i] = "done" /\ year[i] = 2024
        /\ Len(data[i]) = 2 /\ data[i][1].key = "KC" /\ ~data[i][2].isdict
        /\ data[i][1].d = [NoStats EXCEPT !.offense_rank = "int:2"]
        /\ Len(df[i].rows) = 1
        /\ df[i].rows[1].offense_rank = "int:2"
        /\ \A c \in StatColumns \ {"offense_rank"} : df[i].rows[1][c] = None

\* ---------------------------------------------------------------- C4
\* C4: the file either pipeline writes starts with the header row of the
\* schema's field names (six for rookies, twelve for team stats) however
\* many records survive the filter, and for an empty response it is that
\* header row alone.
C4_HeaderIsSchema ==
    \A i \in Calls :
        pc[i] = "done" =>
            LET lines == files[output_path[i]].lines
            IN /\ Len(lines) = 1 + Len(df[i].rows)
               /\ lines[1] = Columns(fn[i])
               /\ Len(lines[1]) = IF fn[i] = "get_rookies" THEN 6 ELSE 12

\* ---------------------------------------------------------------- C2
\* C2: on an HTTP error status either pipeline raises HTTPError at once:
\* the step that sees the status leaves every file and the output stream as
\* they were, and the invocation does nothing afterwards.
ErrorStatus(st) == st >= 400

C2_HttpErrorBeforeWrite ==
    [][\A i \in Calls :
          /\ (pc[i] = "got" /\ ErrorStatus(response[i].status) /\ pc'[i] # "got")
                => /\ pc'[i] = "raised" /\ exc'[i] = "HTTPError"
                   /\ files' = files /\ stdout' = stdout /\ fs_ops' = fs_ops
          /\ (pc[i] = "raised" => pc'[i] = "raised")]_vars

\* An invocation failed on a 404 status while the file of its path held
\* what an earlier process had written.
C2_Witness ==
    \E i \in Calls :
        /\ pc[i] = "raised" /\ exc[i] = "HTTPError" /\ response[i].status = 404
        /\ files[OutputPath(fn[i], year[i])] = OldFile
        /\ stdout = <<>>

\* ---------------------------------------------------------------- C3
\* C3: get_rookies(year) writes to data/raw/rookies_<year>.csv, the year
\* substituted into the name, so that calls for two different years write
\* two different files.
YearQualifiedRookiesPath(y) == "data/raw/rookies_" \o ToString(y) \o ".csv"

C3_RookiesPathHasYear ==
    \A i \in Calls :
        (fn[i] = "get_rookies" /\ Built(i)) =>
            /\ output_path[i] = YearQualifiedRookiesPath(year[i])
            /\ \A j \in Calls :
                 (fn[j] = "get_rookies" /\ Built(j) /\ year[j] # year[i])
                     => output_path[j] # output_path[i]

\* ---------------------------------------------------------------- C7
\* C7: after any sequence of invocations, the file at each path holds the
\* collection of the most recent successful invocation for that path alone;
\* earlier runs are not merged in and a failed run leaves it in place.
Quiescent == \A i \in Calls : pc[i] \in {"idle", "done", "raised"}

Succeeded(p) == {i \in Calls : pc[i] = "done" /\ output_path[i] = p}

Latest(S) == CHOOSE i \in S : \A j \in S : j <= i

C7_FileIsLatestRun ==
    Quiescent =>
        \A p \in Paths :
            IF Succeeded(p) = {}
            THEN files[p] \in {NoFile, OldFile}
            ELSE files[p] = [exists |-> TRUE, lines |-> ToCsv(df[Latest(Succeeded(p))])]

\* A long output, then a shorter one to the same path, then a failed run.
C7_Witness ==
    /\ Quiescent
    /\ \E i, j, k \in Calls :
        /\ i < j /\ j < k
        /\ pc[i] = "done" /\ pc[j] = "done" /\ pc[k] = "raised"
        /\ output_path[i] = output_path[j]
        /\ OutputPath(fn[k], year[k]) = output_path[j]
        /\ Len(df[i].rows) > Len(df[j].rows)

\* ---------------------------------------------------------------- C9
Count(i, op) == Cardinality({k \in 1..Len(fs_ops) : fs_ops[k].call = i /\ fs_ops[k].op = op})

\* An entry on which the rookie filter cannot be evaluated.
Malformed(e) ==
    \/ ~e.isdict
    \/ e.d.years_exp \in {"int:0", "bool:False"} /\ e.d.position = "list:[]"

TransformFails(i) ==
    fn[i] = "get_rookies" /\ \E j \in 1..Len(response[i].body) : Malformed(response[i].body[j])

\* C9 as stated: one GET and no retry; on a success status exactly one
\* write, after the GET and the transform and before the message and the
\* return; on an error status no write and the error.
C9_OneGetOneWrite ==
    \A i \in Calls :
        /\ Len(gets[i]) = IF pc[i] = "idle" THEN 0 ELSE 1
        /\ Count(i, "write") = IF pc[i] \in {"written", "done"} THEN 1 ELSE 0
        /\ Finished(i) =>
             IF ErrorStatus(response[i].status)
             THEN pc[i] = "raised" /\ exc[i] = "HTTPError" /\ Count(i, "open") = 0
             ELSE pc[i] = "done" /\ Count(i, "write") = 1
        /\ Len(stdout) = Cardinality({j \in Calls : pc[j] = "done"})

\* C9, amended: the same, except that on a success status the write happens
\* only when the transform completes; when it raises (get_rookies on an entry
\* that is no mapping, or whose position cannot be hashed) the invocation
\* ends with that error and no write.
C9_OneGetAtMostOneWrite ==
    \A i \in Calls :
        /\ Len(gets[i]) = IF pc[i] = "idle" THEN 0 ELSE 1
        /\ Count(i, "write") = IF pc[i] \in {"written", "done"} THEN 1 ELSE 0
        /\ Count(i, "open") = IF pc[i] \in {"open", "written", "done"} THEN 1 ELSE 0
        /\ Finished(i) =>
             IF ErrorStatus(response[i].status)
             THEN pc[i] = "raised" /\ exc[i] = "HTTPError" /\ Count(i, "open") = 0
             ELSE IF TransformFails(i)
                  THEN /\ pc[i] = "raised" /\ Count(i, "open") = 0
                       /\ exc[i] \in {"AttributeError", "TypeError"}
                  ELSE pc[i] = "done" /\ Count(i, "write") = 1
        /\ Len(stdout) = Cardinality({j \in Calls : pc[j] = "done"})

\* One run wrote and returned, one failed on the status, one in the transform.
C9_Witness ==
    \E i, j, k \in Calls :
        /\ pc[i] = "done" /\ Count(i, "write") = 1 /\ Len(gets[i]) = 1
        /\ pc[j] = "raised" /\ exc[j] = "HTTPError"
        /\ pc[k] = "raised" /\ exc[k] = "AttributeError" /\ response[k].status = 200

\* --------------------------------------------------------------- C10
AllFinished == \A i \in Calls : Finished(i)

Returned == {i \in Calls : pc[i] = "done"}

\* The position in fs_ops of invocation i's open or write.
OpIndex(i, op) == CHOOSE k \in 1..Len(fs_ops) : fs_ops[k].call = i /\ fs_ops[k].op = op

\* The invocation whose write came last.
LastWriter == fs_ops[Len(fs_ops)].call

\* Each invocation's collection is the one built from its own response.
ReturnsOwn ==
    \A i \in Returned : df[i].rows = Records(fn[i], response[i].body, year[i])

\* C10 as stated: under every interleaving, once the concurrent invocations
\* of one pipeline and year have finished, their common file holds the
\* complete collection of whichever wrote last, never a merge, and each
\* returns its own collection.
C10_LastWriterWins ==
    (AllFinished /\ Cardinality(Returned) >= 2) =>
        /\ \A i, j \in Returned : output_path[i] = output_path[j]
        /\ files[output_path[LastWriter]].lines = ToCsv(df[LastWriter])
        /\ ReturnsOwn

\* The last writer opened the file after every other invocation had written.
LastWriterAlone ==
    \A j \in Returned \ {LastWriter} :
        OpIndex(j, "write") < OpIndex(LastWriter, "open")

\* C10, amended: the same, provided that the last writer's open-and-write
\* did not overlap another invocation's write.
C10_LastWriterWinsUnlessOverlap ==
    (AllFinished /\ Cardinality(Returned) >= 2 /\ LastWriterAlone) =>
        /\ \A i, j \in Returned : output_path[i] = output_path[j]
        /\ files[output_path[LastWriter]].lines = ToCsv(df[LastWriter])
        /\ ReturnsOwn

\* Two invocations returned different collections; the longer one was
\* written first, the shorter one then replaced it.
C10_Witness ==
    /\ AllFinished /\ Cardinality(Returned) >= 2 /\ LastWriterAlone
    /\ \E j \in Returned : Len(df[j].rows) > Len(df[LastWriter].rows)
    /\ files[output_path[LastWriter]].lines = ToCsv(df[LastWriter])

====
